---- MODULE Spec2Model ----
\* Content Addressable File Storage (CAFS) over a GCS bucket and a Firestore
\* collection: src/src/cafs.ts (class CAFS) and src/src/gcs-utils.ts (class
\* GCSUtils).  Every await of the code is one atomic step of a caller; callers
\* interleave at the awaits.
EXTENDS Integers, Sequences, FiniteSets, TLC

\* ------------------------------------------------------------------ bounds
\* number of calls made in one behaviour
MaxCalls == 2
\* number of adapter calls that fail with a transport error in one behaviour
MaxFaults == 1
\* largest referenceCount of an entry found in the bucket at construction
MaxSeedRefs == 2

\* ------------------------------------------------------------ value domains
\* the callers: each runs one call at a time, the calls of different callers
\* interleave at their awaits
Procs == {1, 2}

\* characters of a data string: a plain one and the double quote, which
\* JSON.stringify escapes
QUOTE == "\""
BACKSLASH == "\\"
Alphabet == {"a", QUOTE}

\* the data strings callers store: the empty string and the strings of one
\* character
Data == {<<>>} \cup {<<c>> : c \in Alphabet}

\* meta.id of storeContent
Ids == {"r1", "r2"}

\* A path string is a sequence of segments (the parts between "/"); a segment
\* is a name, or a SHA-256 hex digest, with or without the suffix ".json".
Name(s) == [k |-> "name", v |-> <<s>>, json |-> FALSE]

\* meta.typeId of storeContent and the folder argument of the other calls
Folders == {<<Name("cafs")>>, <<Name("cafs"), Name("ab")>>}

\* ------------------------------------------------------- pure functions
\* JSON.stringify of a string: quotes around it, quote and backslash escaped
RECURSIVE JSONEscape(_)
JSONEscape(s) ==
    IF s = <<>> THEN <<>>
    ELSE (IF Head(s) \in {QUOTE, BACKSLASH} THEN <<BACKSLASH, Head(s)>> ELSE <<Head(s)>>)
         \o JSONEscape(Tail(s))

JSONStringify(data) == <<QUOTE>> \o JSONEscape(data) \o <<QUOTE>>

\* Buffer.byteLength(content, 'utf8'): every character of Alphabet is one byte
ByteLength(content) == Len(content)

\* createHash('sha256').update(content).digest('hex'): a 64-hex-character
\* string, one segment long, determined by the content and by nothing else;
\* distinct contents have distinct digests (no SHA-256 collision)
generateContentHash(content) == <<[k |-> "sha256", v |-> content, json |-> FALSE]>>

\* the storage path that leaves the folder out
getStoragePathFlat(folder, contentHash) == <<Name("cafs")>> \o contentHash

\* `${folder}/${contentHash}`
getStoragePath(folder, contentHash) == folder \o contentHash

\* `${str}.json`
DotJson(str) == [str EXCEPT ![Len(str)].json = TRUE]

\* `${folder}/metadata/${contentHash}.json`
metadataPath(folder, contentHash) == folder \o <<Name("metadata")>> \o DotJson(contentHash)

\* file.endsWith('.json')
EndsWithJson(file) == Len(file) > 0 /\ file[Len(file)].json

\* name.startsWith(prefix) for prefix = `${folder}/`
StartsWithFolder(file, folder) ==
    /\ Len(file) > Len(folder)
    /\ SubSeq(file, 1, Len(folder)) = folder

\* [a-f0-9]{2} as a whole segment, and "cafs" as the end of a segment
IsHex2(seg) == seg.k = "name" /\ seg.v \in {<<"ab">>} /\ ~seg.json
EndsWithCafs(seg) == seg.k = "name" /\ seg.v \in {<<"cafs">>} /\ ~seg.json
\* [a-f0-9]{64} at the start of a segment
StartsWithHex64(seg) == seg.k = "sha256"

\* path.match(/cafs\/[a-f0-9]{2}\/([a-f0-9]{64})/): the first place where a
\* segment ending in "cafs" is followed by a segment of two hex characters and
\* one starting with 64 hex characters; <<>> stands for null
MatchAt(path, i) ==
    /\ i + 2 <= Len(path)
    /\ EndsWithCafs(path[i])
    /\ IsHex2(path[i + 1])
    /\ StartsWithHex64(path[i + 2])

extractHashFromPath(path) ==
    LET hits == {i \in 1..Len(path) : MatchAt(path, i)}
    IN  IF hits = {} THEN <<>>
        ELSE LET i == CHOOSE j \in hits : \A m \in hits : j <= m
             IN  <<<<[path[i + 2] EXCEPT !.json = FALSE]>>>>

\* ------------------------------------------------------------------ state
VARIABLES
    bucket,     \* the GCS bucket: path -> file, for the paths that exist
    firestore,  \* resources/{folder}/members/{id} -> {path, timestamp}
    config,     \* CAFS.config
    clock,      \* the number of calls started so far; new Date() reads it
    pc,         \* per caller: "idle" or the await its call is suspended at
    args,       \* per caller: the arguments of its current (or last) call
    loc,        \* per caller: the local variables of its call
    result,     \* per caller: how its last call settled
    faults,     \* the number of adapter calls that failed with a transport error
    hist,       \* the last two completed calls, oldest first; pre: the payload
                \* of a store or delete was in the bucket when the call started
    track       \* the digest whose run of stores and deletes is being counted

vars == <<bucket, firestore, config, clock, pc, args, loc, result, faults, hist, track>>

\* stand-in for config.maxFileSize (10 MiB by default), in bytes
ConfiguredMaxFileSize == 3

\* this.config after the constructor; enableDeduplication is the caller's choice
Configs ==
    {[enableDeduplication |-> d,
      maxFileSize |-> ConfiguredMaxFileSize,
      defaultContentType |-> "application/json"] : d \in BOOLEAN}

\* a CAFSEntry; the JSON document holding it parses back to the same record
CAFSEntry(contentHash, storagePath, contentSize, contentType, timestamp) ==
    [contentHash |-> contentHash,
     gcsPath |-> storagePath,
     metadata |-> [contentSize |-> contentSize,
                   contentType |-> contentType,
                   timestamp |-> timestamp,
                   lastAccessedAt |-> timestamp,
                   referenceCount |-> 1,
                   tags |-> <<>>,
                   customProperties |-> <<>>],
     referencedBy |-> <<>>]

\* a raw file saved without its text
RawFileEmpty(content, contentType, timestamp) ==
    [raw |-> <<>>, doc |-> <<>>, contentType |-> contentType, timestamp |-> timestamp]

\* a file of the bucket: raw text, or (doc) the JSON text of one CAFSEntry,
\* with the contentType and the custom timestamp given to file.save
RawFile(content, contentType, timestamp) ==
    [raw |-> content, doc |-> <<>>, contentType |-> contentType, timestamp |-> timestamp]

\* JSON.stringify(entry, null, 2) saved as application/json
JsonFile(entry, timestamp) ==
    [raw |-> <<>>, doc |-> <<entry>>, contentType |-> "application/json", timestamp |-> timestamp]

\* f with x mapped to v (x added to the domain when it is new)
Put(f, x, v) == [y \in DOMAIN f \cup {x} |-> IF y = x THEN v ELSE f[y]]
\* f without x
Drop(f, x) == [y \in DOMAIN f \ {x} |-> f[y]]
EmptyMap == [y \in {} |-> y]

\* the data whose content passes the size check
Storable == {d \in Data : ByteLength(JSONStringify(d)) <= ConfiguredMaxFileSize}
\* the contentHash arguments callers pass: the digests of storable contents
Digests == {generateContentHash(JSONStringify(d)) : d \in Storable}
\* ... and, for retrieveContent, also the storage path of one in the folder
HashArgs(folder) == Digests \cup {getStoragePath(folder, h) : h \in Digests}

\* The bucket is shared with other writers.  At construction it is empty, or
\* holds one well-formed stored content of folder "cafs": the payload at
\* folder/digest and its entry at folder/metadata/digest.json; with rootCopy
\* the same payload is also stored under its digest alone, the path
\* retrieveContent looks up.
SeedBucket(folder, data, refs, rootCopy) ==
    LET content == JSONStringify(data)
        hash == generateContentHash(content)
        path == getStoragePath(folder, hash)
        e0 == CAFSEntry(hash, path, ByteLength(content), "application/json", 0)
        entry == [e0 EXCEPT !.metadata.referenceCount = refs]
        file == RawFile(content, "application/json", 0)
        b == Put(Put(EmptyMap, path, file), metadataPath(folder, hash), JsonFile(entry, 0))
    IN  IF rootCopy THEN Put(b, hash, file) ELSE b

SeedBuckets ==
    {SeedBucket(<<Name("cafs")>>, <<"a">>, n, c) : n \in 1..MaxSeedRefs, c \in BOOLEAN}

\* a JavaScript number: a finite value, NaN or an infinity (kind "none": no
\* number)
Finite(v) == [kind |-> "finite", v |-> v]
NaN == [kind |-> "nan", v |-> 0]
Infinity == [kind |-> "infinity", v |-> 1]
NoNumber == [kind |-> "none", v |-> 0]

NoArgs ==
    [op |-> "none", id |-> "", folder |-> <<>>, data |-> <<>>, hash |-> <<>>, flag |-> FALSE,
     filePath |-> <<>>, semanticIdentity |-> NoNumber]

NoLoc ==
    [content |-> <<>>, contentSize |-> 0, contentHash |-> <<>>, storagePath |-> <<>>,
     timestamp |-> 0, entry |-> <<>>, newRefCount |-> 0, files |-> {}, entries |-> <<>>,
     upd |-> <<>>, pre |-> FALSE, preEntry |-> FALSE]

\* the CAFSOperationResult of storeContent
NoStoreResult ==
    [success |-> FALSE, contentHash |-> <<>>, deduplicated |-> FALSE, storagePath |-> <<>>,
     error |-> ""]

\* how a call settled: resolved with a value (store, content, bool, entries or
\* number, by operation) or rejected with an error
NoResult ==
    [state |-> "none", store |-> NoStoreResult, content |-> <<>>, bool |-> FALSE,
     entries |-> <<>>, number |-> NoNumber, error |-> ""]

Resolved == [NoResult EXCEPT !.state = "resolved"]
Rejected(error) == [NoResult EXCEPT !.state = "rejected", !.error = error]

NoTrack == [folder |-> <<>>, hash |-> <<>>, n |-> 0, k |-> 0]

Init ==
    /\ bucket \in {EmptyMap} \cup SeedBuckets
    /\ firestore = EmptyMap
    /\ config \in Configs
    /\ clock = 0
    /\ pc = [p \in Procs |-> "idle"]
    /\ args = [p \in Procs |-> NoArgs]
    /\ loc = [p \in Procs |-> NoLoc]
    /\ result = [p \in Procs |-> NoResult]
    /\ faults = 0
    /\ hist = <<>>
    /\ track = NoTrack

\* ------------------------------------------------------ the GCS adapter
\* file.exists()
FileIn(b, path) == path \in DOMAIN b

\* the outcomes of one adapter call: TRUE, or FALSE for a transport error
Outcomes == IF faults < MaxFaults THEN BOOLEAN ELSE {TRUE}

Fault(ok) == faults' = IF ok THEN faults ELSE faults + 1

\* a lookup that makes up an entry for a digest that has none
getCAFSMetadataInMadeUp(b, folder, contentHash) ==
    LET path == metadataPath(folder, contentHash)
    IN  IF FileIn(b, path) THEN b[path].doc
        ELSE <<CAFSEntry(contentHash, getStoragePath(folder, contentHash), 0,
                         "application/json", 0)>>

\* getCAFSMetadata on bucket b: the parsed entry in a sequence, <<>> for null
\* (the file is missing, or is not the JSON text of an entry)
getCAFSMetadataIn(b, folder, contentHash) ==
    LET path == metadataPath(folder, contentHash)
    IN  IF FileIn(b, path) THEN b[path].doc ELSE <<>>

\* the entry saved over the blob it describes
storeCAFSMetadataInOverBlob(b, folder, entry) ==
    Put(b, entry.gcsPath, JsonFile(entry, entry.metadata.timestamp))

\* storeCAFSMetadata on bucket b: the entry saved at the metadata path of its
\* own contentHash
storeCAFSMetadataIn(b, folder, entry) ==
    Put(b, metadataPath(folder, entry.contentHash), JsonFile(entry, entry.metadata.timestamp))

Max(a, b) == IF a >= b THEN a ELSE b

\* the update without its floor at 0
BumpedReferenceCountNoFloor(entry, delta) ==
    [entry EXCEPT !.metadata.referenceCount = entry.metadata.referenceCount + delta]

\* the update that also stamps the entry with the time of the call
BumpedReferenceCountRestamped(entry, delta) ==
    [entry EXCEPT !.metadata.referenceCount = Max(0, entry.metadata.referenceCount + delta),
                  !.metadata.timestamp = clock]

\* entry.metadata.referenceCount = Math.max(0, entry.metadata.referenceCount + delta)
BumpedReferenceCount(entry, delta) ==
    [entry EXCEPT !.metadata.referenceCount = Max(0, entry.metadata.referenceCount + delta)]

\* const newRefCount = Math.max(0, cafsEntry.metadata.referenceCount - 1)
NewRefCount(entry) == Max(0, entry.metadata.referenceCount - 1)

\* ----------------------------------------------------- history variables
LastTwo(s) == IF Len(s) > 2 THEN SubSeq(s, Len(s) - 1, Len(s)) ELSE s

\* the digest a call is about
KeyHash(a) == IF a.op = "store" THEN generateContentHash(JSONStringify(a.data)) ELSE a.hash

\* track counts, for one folder and digest, the successful stores (n) since a
\* store that found neither payload nor entry, and the deleteContent calls
\* without forceDelete (k) that followed them
NextTrack(a, res, l) ==
    LET same == track.n > 0 /\ a.folder = track.folder /\ KeyHash(a) = track.hash
    IN  CASE a.op = "store" /\ res.store.success /\ same /\ track.k = 0 ->
                [track EXCEPT !.n = track.n + 1]
          [] a.op = "store" /\ res.store.success /\ ~l.pre /\ ~l.preEntry ->
                [folder |-> a.folder, hash |-> KeyHash(a), n |-> 1, k |-> 0]
          [] a.op = "store" /\ res.store.success /\ same -> NoTrack
          [] a.op = "delete" /\ same /\ ~a.flag /\ track.k < track.n ->
                [track EXCEPT !.k = track.k + 1]
          [] a.op = "delete" /\ same -> NoTrack
          [] OTHER -> track

\* the call of p, with arguments a and locals l, settles with res; removed: it
\* deleted payload and entry
Finish(p, a, l, res, removed) ==
    /\ pc' = [pc EXCEPT ![p] = "idle"]
    /\ loc' = [loc EXCEPT ![p] = NoLoc]
    /\ result' = [result EXCEPT ![p] = res]
    /\ hist' = LastTwo(Append(hist, [args |-> a, res |-> res, pre |-> l.pre,
                                     removed |-> removed]))
    /\ track' = NextTrack(a, res, l)

\* the call of p goes on, with locals l, to the await named label
Goto(p, label, l) ==
    /\ pc' = [pc EXCEPT ![p] = label]
    /\ loc' = [loc EXCEPT ![p] = l]
    /\ UNCHANGED <<result, hist, track>>

\* a call starts: the behaviour has calls left, and p is the first idle caller
\* (callers are interchangeable)
Start(p, a) ==
    /\ pc[p] = "idle"
    /\ \A q \in Procs : q < p => pc[q] # "idle"
    /\ clock < MaxCalls
    /\ clock' = clock + 1
    /\ args' = [args EXCEPT ![p] = a]
    /\ UNCHANGED <<bucket, firestore, config, faults>>

\* ---------------------------------------------------------- storeContent
StoreFailure(error) ==
    [Resolved EXCEPT !.store = [NoStoreResult EXCEPT !.error = error]]

\* the success result that never reports a deduplication
StoreSuccessNeverDeduplicated(l, deduplicated) ==
    [Resolved EXCEPT !.store = [success |-> TRUE, contentHash |-> l.contentHash,
                                deduplicated |-> FALSE,
                                storagePath |-> l.storagePath, error |-> ""]]

\* the success result with the storage path given as the contentHash
StoreSuccessPathAsHash(l, deduplicated) ==
    [Resolved EXCEPT !.store = [success |-> TRUE, contentHash |-> l.storagePath,
                                deduplicated |-> deduplicated,
                                storagePath |-> l.storagePath, error |-> ""]]

\* return {success: true, contentHash, deduplicated, storagePath}
StoreSuccess(l, deduplicated) ==
    [Resolved EXCEPT !.store = [success |-> TRUE, contentHash |-> l.contentHash,
                                deduplicated |-> deduplicated,
                                storagePath |-> l.storagePath, error |-> ""]]

\* the size check with >= in place of >
ExceedsMaxFileSizeInclusive(contentSize) == contentSize >= config.maxFileSize

\* if (contentSize > this.config.maxFileSize)
ExceedsMaxFileSize(contentSize) == contentSize > config.maxFileSize

\* the existence probe made whatever the configuration says
AfterSizeCheckAlwaysProbes == "store_exists"

\* if (this.config.enableDeduplication) { const exists = await ... }: the await
\* that follows the size check
AfterSizeCheck == IF config.enableDeduplication THEN "store_exists" ELSE "store_write"

\* storeContent up to its first await: the size check, the hash and the path
storeContent(p) ==
    \E id \in Ids, folder \in Folders, data \in Data :
        LET a == [NoArgs EXCEPT !.op = "store", !.id = id, !.folder = folder, !.data = data]
            content == JSONStringify(data)
            contentSize == ByteLength(content)
            contentHash == generateContentHash(content)
            storagePath == getStoragePath(folder, contentHash)
            l == [NoLoc EXCEPT !.content = content, !.contentSize = contentSize,
                               !.contentHash = contentHash, !.storagePath = storagePath,
                               !.timestamp = clock + 1,
                               !.pre = FileIn(bucket, storagePath),
                               !.preEntry = FileIn(bucket, metadataPath(folder, contentHash))]
        IN  /\ Start(p, a)
            /\ IF ExceedsMaxFileSize(contentSize)
               THEN Finish(p, a, l, StoreFailure("size"), FALSE)
               ELSE Goto(p, AfterSizeCheck, l)

\* const exists = await this.gcsUtils.fileExists(storagePath); fileExists
\* answers false when the probe fails
StoreFileExists(p) ==
    /\ pc[p] = "store_exists"
    /\ \E ok \in Outcomes :
        /\ Fault(ok)
        /\ IF ok /\ FileIn(bucket, loc[p].storagePath)
           THEN Goto(p, "urc_read", loc[p])
           ELSE Goto(p, "store_write", [loc[p] EXCEPT !.timestamp = clock])
    /\ UNCHANGED <<bucket, firestore, config, clock, args>>

\* the call going on to the Firestore write without the blob write
StoreWriteContentSkipped(p) ==
    /\ pc[p] = "store_write"
    /\ Goto(p, "store_firestore", loc[p])
    /\ UNCHANGED <<bucket, firestore, config, clock, args, faults>>

\* await this.gcsUtils.writeRawContent(storagePath, content, contentType, timestamp)
StoreWriteContent(p) ==
    /\ pc[p] = "store_write"
    /\ \E ok \in Outcomes :
        /\ Fault(ok)
        /\ IF ok
           THEN /\ bucket' = Put(bucket, loc[p].storagePath,
                                 RawFile(loc[p].content, config.defaultContentType,
                                         loc[p].timestamp))
                /\ Goto(p, "store_firestore", loc[p])
           ELSE /\ Finish(p, args[p], loc[p], StoreFailure("io"), FALSE)
                /\ UNCHANGED bucket
    /\ UNCHANGED <<firestore, config, clock, args>>

\* await this.gcsUtils.writeToFirestore(folder, resourceId, {path, timestamp});
\* the cafsEntry built before it is not saved
StoreWriteToFirestore(p) ==
    /\ pc[p] = "store_firestore"
    /\ \E ok \in Outcomes :
        /\ Fault(ok)
        /\ IF ok
           THEN /\ firestore' = Put(firestore, [folder |-> args[p].folder, id |-> args[p].id],
                                    [path |-> loc[p].storagePath,
                                     timestamp |-> loc[p].timestamp])
                /\ Finish(p, args[p], loc[p], StoreSuccess(loc[p], FALSE), FALSE)
           ELSE /\ Finish(p, args[p], loc[p], StoreFailure("io"), FALSE)
                /\ UNCHANGED firestore
    /\ UNCHANGED <<bucket, config, clock, args>>

\* -------------------------------------------------- updateReferenceCount
\* what storeContent and deleteContent do once updateReferenceCount returned
AfterUpdateReferenceCount(p) ==
    IF args[p].op = "store"
    THEN Finish(p, args[p], loc[p], StoreSuccess(loc[p], TRUE), FALSE)
    ELSE IF loc[p].newRefCount > 0
         THEN Finish(p, args[p], loc[p], Resolved, FALSE)
         ELSE Goto(p, "delete_blob", loc[p])

\* what they do when it threw
UpdateReferenceCountThrew(p) ==
    IF args[p].op = "store"
    THEN Finish(p, args[p], loc[p], StoreFailure("io"), FALSE)
    ELSE Finish(p, args[p], loc[p], Rejected("io"), FALSE)

\* the read that makes up an entry of count 1 when it finds none
UpdateReferenceCountReadCreating(p) ==
    /\ pc[p] = "urc_read"
    /\ \E ok \in Outcomes :
        LET got == IF ok THEN getCAFSMetadataIn(bucket, args[p].folder, KeyHash(args[p])) ELSE <<>>
            delta == IF args[p].op = "store" THEN 1 ELSE -1
            made == CAFSEntry(KeyHash(args[p]), getStoragePath(args[p].folder, KeyHash(args[p])),
                              0, config.defaultContentType, clock)
        IN  /\ Fault(ok)
            /\ IF got = <<>>
               THEN Goto(p, "urc_write", [loc[p] EXCEPT !.upd = <<made>>])
               ELSE Goto(p, "urc_write",
                         [loc[p] EXCEPT !.upd = <<BumpedReferenceCount(got[1], delta)>>])
    /\ UNCHANGED <<bucket, firestore, config, clock, args>>

\* const entry = await this.getCAFSMetadata(folder, contentHash); if (entry) ...
\* getCAFSMetadata answers null when the read fails
UpdateReferenceCountRead(p) ==
    /\ pc[p] = "urc_read"
    /\ \E ok \in Outcomes :
        LET got == IF ok THEN getCAFSMetadataIn(bucket, args[p].folder, KeyHash(args[p])) ELSE <<>>
            delta == IF args[p].op = "store" THEN 1 ELSE -1
        IN  /\ Fault(ok)
            /\ IF got = <<>>
               THEN AfterUpdateReferenceCount(p)
               ELSE Goto(p, "urc_write",
                         [loc[p] EXCEPT !.upd = <<BumpedReferenceCount(got[1], delta)>>])
    /\ UNCHANGED <<bucket, firestore, config, clock, args>>

\* await this.storeCAFSMetadata(folder, entry, entry.metadata.timestamp)
UpdateReferenceCountWrite(p) ==
    /\ pc[p] = "urc_write"
    /\ \E ok \in Outcomes :
        /\ Fault(ok)
        /\ IF ok
           THEN /\ bucket' = storeCAFSMetadataIn(bucket, args[p].folder, loc[p].upd[1])
                /\ AfterUpdateReferenceCount(p)
           ELSE /\ UpdateReferenceCountThrew(p)
                /\ UNCHANGED bucket
    /\ UNCHANGED <<firestore, config, clock, args>>

\* -------------------------------------------------------- retrieveContent
\* const storagePath = contentHash  (getStoragePath is commented out)
retrieveStoragePath(folder, contentHash) == contentHash

retrieveContent(p) ==
    \E folder \in Folders, updateAccessTime \in BOOLEAN :
        \E contentHash \in HashArgs(folder) :
            LET a == [NoArgs EXCEPT !.op = "retrieve", !.folder = folder, !.hash = contentHash,
                                    !.flag = updateAccessTime]
                l == [NoLoc EXCEPT !.storagePath = retrieveStoragePath(folder, contentHash)]
            IN  /\ Start(p, a)
                /\ Goto(p, "retrieve_exists", l)

\* the missing content returned as an empty string
ContentNotFoundEmpty == Resolved

\* throw new Error(`Content with hash ${contentHash} not found`), rethrown by
\* the catch
ContentNotFound == Rejected("notfound")

\* const exists = await this.gcsUtils.fileExists(storagePath); if (!exists) throw
RetrieveFileExists(p) ==
    /\ pc[p] = "retrieve_exists"
    /\ \E ok \in Outcomes :
        /\ Fault(ok)
        /\ IF ok /\ FileIn(bucket, loc[p].storagePath)
           THEN Goto(p, "retrieve_read", loc[p])
           ELSE Finish(p, args[p], loc[p], ContentNotFound, FALSE)
    /\ UNCHANGED <<bucket, firestore, config, clock, args>>

\* return content
ReturnContent(p) ==
    Finish(p, args[p], loc[p], [Resolved EXCEPT !.content = loc[p].content], FALSE)

\* const content = await this.gcsUtils.readRawContent(storagePath); the hash
\* comparison that follows has an empty body
RetrieveReadRawContent(p) ==
    /\ pc[p] = "retrieve_read"
    /\ \E ok \in Outcomes :
        /\ Fault(ok)
        /\ IF ok /\ FileIn(bucket, loc[p].storagePath)
           THEN LET l == [loc[p] EXCEPT !.content = bucket[loc[p].storagePath].raw]
                IN  IF args[p].flag
                    THEN Goto(p, "ulat_read", l)
                    ELSE Finish(p, args[p], l, [Resolved EXCEPT !.content = l.content], FALSE)
           ELSE Finish(p, args[p], loc[p], Rejected("io"), FALSE)
    /\ UNCHANGED <<bucket, firestore, config, clock, args>>

\* entry.metadata.lastAccessedAt = new Date()
WithLastAccessedAt(entry) == [entry EXCEPT !.metadata.lastAccessedAt = clock]

\* updateLastAccessTime: const entry = await this.getCAFSMetadata(folder, contentHash)
UpdateLastAccessTimeRead(p) ==
    /\ pc[p] = "ulat_read"
    /\ \E ok \in Outcomes :
        LET got == IF ok THEN getCAFSMetadataIn(bucket, args[p].folder, args[p].hash) ELSE <<>>
        IN  /\ Fault(ok)
            /\ IF got = <<>>
               THEN ReturnContent(p)
               ELSE Goto(p, "ulat_write",
                         [loc[p] EXCEPT !.upd = <<WithLastAccessedAt(got[1])>>])
    /\ UNCHANGED <<bucket, firestore, config, clock, args>>

\* updateLastAccessTime: await this.storeCAFSMetadata(folder, entry, timestamp)
UpdateLastAccessTimeWrite(p) ==
    /\ pc[p] = "ulat_write"
    /\ \E ok \in Outcomes :
        /\ Fault(ok)
        /\ IF ok
           THEN /\ bucket' = storeCAFSMetadataIn(bucket, args[p].folder, loc[p].upd[1])
                /\ ReturnContent(p)
           ELSE /\ Finish(p, args[p], loc[p], Rejected("io"), FALSE)
                /\ UNCHANGED bucket
    /\ UNCHANGED <<firestore, config, clock, args>>

\* ---------------------------------------------------------- contentExists
\* the probe path without the folder, as retrieveContent derives it
contentExistsPathNoFolder(folder, contentHash) == contentHash

\* const storagePath = this.getStoragePath(folder, contentHash)
contentExistsPath(folder, contentHash) == getStoragePath(folder, contentHash)

\* the answer taken from the metadata store
contentExistsInByEntry(b, folder, contentHash) == FileIn(b, metadataPath(folder, contentHash))

\* what contentExists answers on bucket b when the probe does not fail
contentExistsIn(b, folder, contentHash) == FileIn(b, contentExistsPath(folder, contentHash))

contentExists(p) ==
    \E folder \in Folders, contentHash \in Digests :
        LET a == [NoArgs EXCEPT !.op = "exists", !.folder = folder, !.hash = contentHash]
        IN  /\ Start(p, a)
            /\ Goto(p, "exists_probe", NoLoc)

\* return await this.gcsUtils.fileExists(storagePath)
ContentExistsProbe(p) ==
    /\ pc[p] = "exists_probe"
    /\ \E ok \in Outcomes :
        /\ Fault(ok)
        /\ Finish(p, args[p], loc[p],
                  [Resolved EXCEPT !.bool =
                      (ok /\ contentExistsIn(bucket, args[p].folder, args[p].hash))], FALSE)
    /\ UNCHANGED <<bucket, firestore, config, clock, args>>

\* ---------------------------------------------------------- deleteContent
deleteContent(p) ==
    \E folder \in Folders, contentHash \in Digests, forceDelete \in BOOLEAN :
        LET a == [NoArgs EXCEPT !.op = "delete", !.folder = folder, !.hash = contentHash,
                                !.flag = forceDelete]
            l == [NoLoc EXCEPT !.pre = FileIn(bucket, getStoragePath(folder, contentHash)),
                               !.preEntry = FileIn(bucket, metadataPath(folder, contentHash))]
        IN  /\ Start(p, a)
            /\ Goto(p, "delete_get", l)

\* the missing entry reported as a normal return
EntryNotFoundIgnored == Resolved

\* throw new Error(`CAFS entry not found for hash ${contentHash}`), rethrown by
\* the catch
EntryNotFound == Rejected("notfound")

\* the reference count updated whatever forceDelete is
AfterGetMetadataAlwaysCounted(forceDelete) == "urc_read"

\* if (!forceDelete) { ... await this.updateReferenceCount(...) ... }: the await
\* that follows the read of the entry
AfterGetMetadata(forceDelete) == IF forceDelete THEN "delete_blob" ELSE "urc_read"

\* const cafsEntry = await this.getCAFSMetadata(folder, contentHash);
\* if (!cafsEntry) throw; if (!forceDelete) newRefCount = ...
DeleteGetMetadata(p) ==
    /\ pc[p] = "delete_get"
    /\ \E ok \in Outcomes :
        LET got == IF ok THEN getCAFSMetadataIn(bucket, args[p].folder, args[p].hash) ELSE <<>>
        IN  /\ Fault(ok)
            /\ IF got = <<>>
               THEN Finish(p, args[p], loc[p], EntryNotFound, FALSE)
               ELSE Goto(p, AfterGetMetadata(args[p].flag),
                         [loc[p] EXCEPT !.entry = got,
                                        !.newRefCount = IF args[p].flag THEN 0
                                                        ELSE NewRefCount(got[1])])
    /\ UNCHANGED <<bucket, firestore, config, clock, args>>

\* the blob left in place on the way to the metadata deletion
DeleteFileSkipped(p) ==
    /\ pc[p] = "delete_blob"
    /\ Goto(p, "delete_meta", loc[p])
    /\ UNCHANGED <<bucket, firestore, config, clock, args, faults>>

\* await this.gcsUtils.deleteFile(cafsEntry.gcsPath); file.delete() fails on a
\* file that does not exist
DeleteFile(p) ==
    /\ pc[p] = "delete_blob"
    /\ \E ok \in Outcomes :
        /\ Fault(ok)
        /\ IF ok /\ FileIn(bucket, loc[p].entry[1].gcsPath)
           THEN /\ bucket' = Drop(bucket, loc[p].entry[1].gcsPath)
                /\ Goto(p, "delete_meta", loc[p])
           ELSE /\ Finish(p, args[p], loc[p], Rejected("io"), FALSE)
                /\ UNCHANGED bucket
    /\ UNCHANGED <<firestore, config, clock, args>>

\* the entry deleted by a call that then reports a failure
DeleteCAFSMetadataThenThrows(p) ==
    /\ pc[p] = "delete_meta"
    /\ bucket' = Drop(bucket, metadataPath(args[p].folder, args[p].hash))
    /\ Finish(p, args[p], loc[p], Rejected("io"), FALSE)
    /\ UNCHANGED <<firestore, config, clock, args, faults>>

\* await this.deleteCAFSMetadata(folder, contentHash)
DeleteCAFSMetadata(p) ==
    /\ pc[p] = "delete_meta"
    /\ \E ok \in Outcomes :
        /\ Fault(ok)
        /\ IF ok /\ FileIn(bucket, metadataPath(args[p].folder, args[p].hash))
           THEN /\ bucket' = Drop(bucket, metadataPath(args[p].folder, args[p].hash))
                /\ Finish(p, args[p], loc[p], Resolved, TRUE)
           ELSE /\ Finish(p, args[p], loc[p], Rejected("io"), FALSE)
                /\ UNCHANGED bucket
    /\ UNCHANGED <<firestore, config, clock, args>>

\* ----------------------------------------------------------- getCAFSEntry
getCAFSEntry(p) ==
    \E folder \in Folders, contentHash \in Digests :
        LET a == [NoArgs EXCEPT !.op = "entry", !.folder = folder, !.hash = contentHash]
        IN  /\ Start(p, a)
            /\ Goto(p, "entry_get", NoLoc)

\* a lookup that stamps lastAccessedAt on the entry it returns
GetCAFSEntryReadStamping(p) ==
    /\ pc[p] = "entry_get"
    /\ LET got == getCAFSMetadataIn(bucket, args[p].folder, args[p].hash)
       IN  /\ bucket' = IF got = <<>> THEN bucket
                        ELSE storeCAFSMetadataIn(bucket, args[p].folder,
                                 [got[1] EXCEPT !.metadata.lastAccessedAt = clock])
           /\ Finish(p, args[p], loc[p], [Resolved EXCEPT !.entries = got], FALSE)
    /\ UNCHANGED <<firestore, config, clock, args, faults>>

\* return await this.getCAFSMetadata(folder, contentHash)
GetCAFSEntryRead(p) ==
    /\ pc[p] = "entry_get"
    /\ \E ok \in Outcomes :
        LET got == IF ok THEN getCAFSMetadataIn(bucket, args[p].folder, args[p].hash) ELSE <<>>
        IN  /\ Fault(ok)
            /\ Finish(p, args[p], loc[p], [Resolved EXCEPT !.entries = got], FALSE)
    /\ UNCHANGED <<bucket, firestore, config, clock, args>>

\* -------------------------------------------------------- listCAFSEntries
\* called without a filter
listCAFSEntries(p) ==
    \E folder \in Folders :
        LET a == [NoArgs EXCEPT !.op = "list", !.folder = folder]
        IN  /\ Start(p, a)
            /\ Goto(p, "list_files", NoLoc)

\* bucket.getFiles({prefix: `${folder}/`}) on bucket b
listFilesIn(b, folder) == {f \in DOMAIN b : StartsWithFolder(f, folder)}

\* the files the loop looks up: not ending in .json, with a hash in the path
FilesToLookUp(files) == {f \in files : ~EndsWithJson(f) /\ extractHashFromPath(f) # <<>>}

\* const files = await this.gcsUtils.listFiles(`${folder}/`); a failure of the
\* listing is not caught.  The loop runs without an await up to the first
\* file it looks up.
ListFiles(p) ==
    /\ pc[p] = "list_files"
    /\ \E ok \in Outcomes :
        LET l == [loc[p] EXCEPT !.files = FilesToLookUp(listFilesIn(bucket, args[p].folder))]
        IN  /\ Fault(ok)
            /\ IF ~ok
               THEN Finish(p, args[p], loc[p], Rejected("io"), FALSE)
               ELSE IF l.files = {}
                    THEN Finish(p, args[p], l, Resolved, FALSE)
                    ELSE Goto(p, "list_get", l)
    /\ UNCHANGED <<bucket, firestore, config, clock, args>>

\* const entry = await this.getCAFSMetadata(folder, hash); if (entry) push.
\* The bucket lists names in the order of their characters, which for digests
\* is any order.
ListGetMetadata(p) ==
    /\ pc[p] = "list_get"
    /\ \E file \in loc[p].files, ok \in Outcomes :
        LET hash == extractHashFromPath(file)[1]
            got == IF ok THEN getCAFSMetadataIn(bucket, args[p].folder, hash) ELSE <<>>
            l == [loc[p] EXCEPT !.files = loc[p].files \ {file},
                                !.entries = loc[p].entries \o got]
        IN  /\ Fault(ok)
            /\ IF l.files = {}
               THEN Finish(p, args[p], l, [Resolved EXCEPT !.entries = l.entries], FALSE)
               ELSE Goto(p, "list_get", l)
    /\ UNCHANGED <<bucket, firestore, config, clock, args>>

\* ------------------------------------------- GCSUtils: number files
\* the numbers callers write
NumberArgs == {Finite(0), Finite(42), Finite(-1), NaN, Infinity}

\* the file paths callers use
FilePaths ==
    {<<Name("test"), DotJson(<<Name(n)>>)[1]>> : n \in {"basic-test", "other"}}

\* JSON.stringify of a number: its decimal text when it is finite, null
\* for NaN and the infinities
JSONStringifyNumber(n) ==
    IF n.kind = "finite" THEN [t |-> "number", v |-> n.v] ELSE [t |-> "null", v |-> 0]

\* JSON.stringify({semanticIdentity}, null, 2): the text of an object with the
\* one member semanticIdentity
IntegerInstanceJson(semanticIdentity) ==
    [semanticIdentity |-> JSONStringifyNumber(semanticIdentity)]

\* JSON.parse(fileContents.toString()).semanticIdentity
ParsedSemanticIdentity(jsonString) == jsonString.semanticIdentity

\* typeof jsonData.semanticIdentity === 'number'
IsNumber(value) == value.t = "number"

\* the number a JSON number text parses to
NumberValue(value) == Finite(value.v)

\* file.save(jsonString, metadata) of writeToGCS
NumberFile(jsonString, contentType, createdAt) ==
    [raw |-> jsonString, doc |-> <<>>, contentType |-> contentType, timestamp |-> createdAt,
     contentHash |-> generateContentHash(jsonString)]

\* the bucket when GCSUtils is constructed: empty, or holding one number file
InitGCS ==
    /\ bucket \in {EmptyMap}
                 \cup {Put(EmptyMap, f, NumberFile(IntegerInstanceJson(Finite(0)),
                                                  "application/json", 0)) : f \in FilePaths}
    /\ firestore = EmptyMap
    /\ config \in {c \in Configs : c.enableDeduplication}
    /\ clock = 0
    /\ pc = [p \in Procs |-> "idle"]
    /\ args = [p \in Procs |-> NoArgs]
    /\ loc = [p \in Procs |-> NoLoc]
    /\ result = [p \in Procs |-> NoResult]
    /\ faults = 0
    /\ hist = <<>>
    /\ track = NoTrack

\* writeToGCS up to its first await; flag is options.overwrite
writeToGCS(p) ==
    \E filePath \in FilePaths, semanticIdentity \in NumberArgs, overwrite \in BOOLEAN :
        LET a == [NoArgs EXCEPT !.op = "write", !.filePath = filePath,
                                !.semanticIdentity = semanticIdentity, !.flag = overwrite]
            l == [NoLoc EXCEPT !.content = IntegerInstanceJson(semanticIdentity),
                               !.timestamp = clock + 1]
        IN  /\ Start(p, a)
            /\ Goto(p, IF overwrite THEN "gcs_save" ELSE "gcs_write_exists", l)

\* if (!options.overwrite) { const [exists] = await file.exists(); if (exists) throw }
WriteFileExists(p) ==
    /\ pc[p] = "gcs_write_exists"
    /\ \E ok \in Outcomes :
        /\ Fault(ok)
        /\ IF ~ok
           THEN Finish(p, args[p], loc[p], Rejected("io"), FALSE)
           ELSE IF FileIn(bucket, args[p].filePath)
                THEN Finish(p, args[p], loc[p], Rejected("exists"), FALSE)
                ELSE Goto(p, "gcs_save", [loc[p] EXCEPT !.timestamp = clock])
    /\ UNCHANGED <<bucket, firestore, config, clock, args>>

\* await file.save(jsonString, metadata)
WriteSave(p) ==
    /\ pc[p] = "gcs_save"
    /\ \E ok \in Outcomes :
        /\ Fault(ok)
        /\ IF ok
           THEN /\ bucket' = Put(bucket, args[p].filePath,
                                 NumberFile(loc[p].content, "application/json",
                                            loc[p].timestamp))
                /\ Finish(p, args[p], loc[p], Resolved, FALSE)
           ELSE /\ Finish(p, args[p], loc[p], Rejected("io"), FALSE)
                /\ UNCHANGED bucket
    /\ UNCHANGED <<firestore, config, clock, args>>

\* readFromGCS up to its first await; flag is options.validateHash
readFromGCS(p) ==
    \E filePath \in FilePaths, validateHash \in BOOLEAN :
        LET a == [NoArgs EXCEPT !.op = "read", !.filePath = filePath, !.flag = validateHash]
        IN  /\ Start(p, a)
            /\ Goto(p, "gcs_read_exists", NoLoc)

\* const [exists] = await file.exists(); if (!exists) throw
ReadFileExists(p) ==
    /\ pc[p] = "gcs_read_exists"
    /\ \E ok \in Outcomes :
        /\ Fault(ok)
        /\ IF ~ok
           THEN Finish(p, args[p], loc[p], Rejected("io"), FALSE)
           ELSE IF FileIn(bucket, args[p].filePath)
                THEN Goto(p, "gcs_download", loc[p])
                ELSE Finish(p, args[p], loc[p], Rejected("notfound"), FALSE)
    /\ UNCHANGED <<bucket, firestore, config, clock, args>>

\* return jsonData.semanticIdentity
ReturnSemanticIdentity(p, l) ==
    Finish(p, args[p], l,
           [Resolved EXCEPT !.number = NumberValue(ParsedSemanticIdentity(l.content))], FALSE)

\* const [fileContents] = await file.download(); JSON.parse; the typeof check
ReadDownload(p) ==
    /\ pc[p] = "gcs_download"
    /\ \E ok \in Outcomes :
        /\ Fault(ok)
        /\ IF ok /\ FileIn(bucket, args[p].filePath)
           THEN LET l == [loc[p] EXCEPT !.content = bucket[args[p].filePath].raw]
                IN  IF ~IsNumber(ParsedSemanticIdentity(l.content))
                    THEN Finish(p, args[p], l, Rejected("invalid"), FALSE)
                    ELSE IF args[p].flag
                         THEN Goto(p, "gcs_metadata", l)
                         ELSE ReturnSemanticIdentity(p, l)
           ELSE Finish(p, args[p], loc[p], Rejected("io"), FALSE)
    /\ UNCHANGED <<bucket, firestore, config, clock, args>>

\* const [metadata] = await file.getMetadata(); if (storedHash && storedHash
\* !== contentHash) throw
ReadGetMetadata(p) ==
    /\ pc[p] = "gcs_metadata"
    /\ \E ok \in Outcomes :
        /\ Fault(ok)
        /\ IF ok /\ FileIn(bucket, args[p].filePath)
           THEN IF bucket[args[p].filePath].contentHash # generateContentHash(loc[p].content)
                THEN Finish(p, args[p], loc[p], Rejected("hash"), FALSE)
                ELSE ReturnSemanticIdentity(p, loc[p])
           ELSE Finish(p, args[p], loc[p], Rejected("io"), FALSE)
    /\ UNCHANGED <<bucket, firestore, config, clock, args>>

\* the calls of one user of GCSUtils, one after the other
NextGCS ==
    \/ writeToGCS(1)
    \/ WriteFileExists(1)
    \/ WriteSave(1)
    \/ readFromGCS(1)
    \/ ReadFileExists(1)
    \/ ReadDownload(1)
    \/ ReadGetMetadata(1)

SpecGCS == InitGCS /\ [][NextGCS]_vars

\* ---------------------------------------------------------- specification
Step(p) ==
    \/ storeContent(p)
    \/ StoreFileExists(p)
    \/ StoreWriteContent(p)
    \/ StoreWriteToFirestore(p)
    \/ UpdateReferenceCountRead(p)
    \/ UpdateReferenceCountWrite(p)
    \/ retrieveContent(p)
    \/ RetrieveFileExists(p)
    \/ RetrieveReadRawContent(p)
    \/ UpdateLastAccessTimeRead(p)
    \/ UpdateLastAccessTimeWrite(p)
    \/ contentExists(p)
    \/ ContentExistsProbe(p)
    \/ deleteContent(p)
    \/ DeleteGetMetadata(p)
    \/ DeleteFile(p)
    \/ DeleteCAFSMetadata(p)
    \/ getCAFSEntry(p)
    \/ GetCAFSEntryRead(p)
    \/ listCAFSEntries(p)
    \/ ListFiles(p)
    \/ ListGetMetadata(p)

\* callers interleave at their awaits
Next == \E p \in Procs : Step(p)

Spec == Init /\ [][Next]_vars

\* one caller, whose calls follow one another
NextSeq == Step(1)

SpecSeq == Init /\ [][NextSeq]_vars

\* interleaved callers over adapters that do not fail
NextReliable == Next /\ faults' = 0

SpecReliable == Init /\ [][NextReliable]_vars

\* ------------------------------------------------------------------ claims
Idle == \A p \in Procs : pc[p] = "idle"

\* the content storeContent writes for data, and its size
ContentOf(data) == JSONStringify(data)
SizeOf(data) == ByteLength(ContentOf(data))

\* the last completed call
Last == hist[Len(hist)]

\* hist holds two store calls with the same folder and data, the data within
\* the size limit
TwoStoresOfSameContent ==
    /\ Len(hist) = 2
    /\ hist[1].args.op = "store"
    /\ hist[2].args.op = "store"
    /\ hist[1].args.folder = hist[2].args.folder
    /\ hist[1].args.data = hist[2].args.data
    /\ SizeOf(hist[1].args.data) <= config.maxFileSize

\* C1: with deduplication enabled and no adapter failure, two storeContent
\* calls in a row with the same content and folder both succeed with the same
\* contentHash and storagePath; the second reports deduplicated:true, and the
\* first deduplicated:false when the payload was not stored before it.
C1_SecondStoreDeduplicated ==
    (TwoStoresOfSameContent /\ config.enableDeduplication /\ faults = 0) =>
        /\ hist[1].res.store.success
        /\ hist[2].res.store.success
        /\ (~hist[1].pre => ~hist[1].res.store.deduplicated)
        /\ hist[2].res.store.deduplicated
        /\ hist[1].res.store.contentHash = hist[2].res.store.contentHash
        /\ hist[1].res.store.storagePath = hist[2].res.store.storagePath
        /\ hist[1].res.store.contentHash = generateContentHash(ContentOf(hist[1].args.data))
        /\ hist[1].res.store.storagePath =
               getStoragePath(hist[1].args.folder, hist[1].res.store.contentHash)

C1_Witness ==
    /\ TwoStoresOfSameContent
    /\ config.enableDeduplication
    /\ faults = 0
    /\ ~hist[1].pre
    /\ ~hist[1].res.store.deduplicated
    /\ hist[2].res.store.deduplicated

\* the entry persisted for the tracked digest, in a sequence (<<>>: none)
TrackedEntry == getCAFSMetadataIn(bucket, track.folder, track.hash)
TrackedPath == getStoragePath(track.folder, track.hash)

\* C2: after k >= 1 successful storeContent calls in a row of one content into
\* one folder, the first of which found the digest absent, with no delete in
\* between, the entry of the digest has referenceCount = k.
C2_ReferenceCountCountsStores ==
    (Idle /\ faults = 0 /\ config.enableDeduplication /\ track.n >= 1 /\ track.k = 0) =>
        /\ TrackedEntry # <<>>
        /\ TrackedEntry[1].metadata.referenceCount = track.n

\* C3: after a successful storeContent of a digest that was not in the folder,
\* getCAFSEntry finds an entry with the returned contentHash, the storage path
\* folder/digest and referenceCount 1.
C3_EntryPersistedOnFirstStore ==
    (Idle /\ Len(hist) > 0 /\ Last.args.op = "store" /\ Last.res.store.success /\ ~Last.pre) =>
        LET got == getCAFSMetadataIn(bucket, Last.args.folder, Last.res.store.contentHash)
        IN  /\ got # <<>>
            /\ got[1].contentHash = Last.res.store.contentHash
            /\ got[1].gcsPath = getStoragePath(Last.args.folder, Last.res.store.contentHash)
            /\ got[1].metadata.referenceCount = 1

\* C4: round trip: a retrieveContent(F, r.contentHash) that follows a successful
\* r = storeContent(C) into F resolves with exactly C.
C4_RoundTrip ==
    ( /\ Len(hist) = 2
      /\ faults = 0
      /\ hist[1].args.op = "store"
      /\ hist[1].res.store.success
      /\ hist[2].args.op = "retrieve"
      /\ hist[2].args.folder = hist[1].args.folder
      /\ hist[2].args.hash = hist[1].res.store.contentHash ) =>
        /\ hist[2].res.state = "resolved"
        /\ hist[2].res.content = hist[1].args.data

\* C5: after n successful stores of one content into one folder followed by
\* k >= 1 deleteContent calls without forceDelete: while k < n payload and entry
\* exist, the payload bytes are those stored and referenceCount = n - k; with
\* k = n both are gone.
C5_DeletesCountDown ==
    (Idle /\ faults = 0 /\ config.enableDeduplication /\ track.n >= 1 /\ track.k >= 1) =>
        IF track.k < track.n
        THEN /\ FileIn(bucket, TrackedPath)
             /\ generateContentHash(bucket[TrackedPath].raw) = track.hash
             /\ TrackedEntry # <<>>
             /\ TrackedEntry[1].metadata.referenceCount = track.n - track.k
        ELSE /\ ~FileIn(bucket, TrackedPath)
             /\ TrackedEntry = <<>>

\* the entries persisted in the bucket
PersistedEntries == {bucket[f].doc[1] : f \in {g \in DOMAIN bucket : bucket[g].doc # <<>>}}

\* C6: in every reachable state, under any interleaving of calls and with
\* adapter failures, the referenceCount of every persisted entry is an
\* integer >= 0.
C6_ReferenceCountNonNegative ==
    \A e \in PersistedEntries : e.metadata.referenceCount \in Nat

\* two deleteContent calls without forceDelete are past their reference-count
\* update at once, and the persisted count is at its floor
C6_Witness ==
    /\ \E e \in PersistedEntries : e.metadata.referenceCount = 0
    /\ \A p \in Procs : pc[p] = "delete_blob" /\ ~args[p].flag

\* C7: when no call is in flight and no adapter call has failed, an entry
\* exists at folder/metadata/digest.json exactly when a payload exists at
\* folder/digest.
C7_EntryIffPayload ==
    (Idle /\ faults = 0) =>
        \A f \in Folders, h \in Digests :
            FileIn(bucket, metadataPath(f, h)) <=> FileIn(bucket, getStoragePath(f, h))

\* hist holds a call followed by a contentExists for the same folder and digest
ThenContentExists(folder, hash) ==
    /\ Len(hist) = 2
    /\ hist[2].args.op = "exists"
    /\ hist[2].args.folder = folder
    /\ hist[2].args.hash = hash

\* C8: a contentExists that follows a successful storeContent, for the returned
\* digest and the same folder, answers true; one that follows the
\* deleteContent without forceDelete that removed payload and entry answers
\* false (no adapter failure).
C8_ExistenceConsistency ==
    (Len(hist) = 2 /\ faults = 0) =>
        /\ ( /\ hist[1].args.op = "store"
             /\ hist[1].res.store.success
             /\ ThenContentExists(hist[1].args.folder, hist[1].res.store.contentHash) )
           => hist[2].res.bool
        /\ ( /\ hist[1].args.op = "delete"
             /\ ~hist[1].args.flag
             /\ hist[1].removed
             /\ ThenContentExists(hist[1].args.folder, hist[1].args.hash) )
           => ~hist[2].res.bool

C8_Witness ==
    /\ Len(hist) = 2
    /\ faults = 0
    /\ hist[1].args.op = "delete"
    /\ ~hist[1].args.flag
    /\ hist[1].removed
    /\ ThenContentExists(hist[1].args.folder, hist[1].args.hash)
    /\ ~hist[2].res.bool

\* the entries listCAFSEntries(folder) is to return: the entry of every digest
\* whose payload is stored under the folder with referenceCount > 0
StoredEntries(folder) ==
    {e \in PersistedEntries :
        /\ \E h \in Digests : /\ getCAFSMetadataIn(bucket, folder, h) = <<e>>
                              /\ FileIn(bucket, getStoragePath(folder, h))
        /\ e.metadata.referenceCount > 0}

SeqRange(q) == {q[i] : i \in 1..Len(q)}

\* C9: listCAFSEntries(folder) without a filter returns exactly one entry for
\* each digest whose payload is stored under the folder with
\* referenceCount > 0, and no other entry, each as persisted.
C9_ListingExact ==
    (Idle /\ faults = 0 /\ Len(hist) > 0 /\ Last.args.op = "list") =>
        /\ Last.res.state = "resolved"
        /\ SeqRange(Last.res.entries) = StoredEntries(Last.args.folder)
        /\ Len(Last.res.entries) = Cardinality(StoredEntries(Last.args.folder))

\* the step starts a call of p
StartsCall(p) ==
    /\ clock' = clock + 1
    /\ pc[p] = "idle"
    /\ \A q \in Procs : q < p => pc[q] # "idle"

\* C10: a storeContent of content longer than maxFileSize settles at once with
\* success:false and a size error, and writes neither to the bucket nor to
\* Firestore; content of exactly maxFileSize bytes passes the check: the call
\* goes on, and does not end with the size error.
C10_SizeLimit ==
    [][\A p \in Procs :
          /\ (StartsCall(p) /\ args'[p].op = "store") =>
                /\ SizeOf(args'[p].data) > config.maxFileSize =>
                      /\ pc'[p] = "idle"
                      /\ result'[p].state = "resolved"
                      /\ result'[p].store = [NoStoreResult EXCEPT !.error = "size"]
                      /\ bucket' = bucket
                      /\ firestore' = firestore
                /\ SizeOf(args'[p].data) = config.maxFileSize => pc'[p] # "idle"
          /\ ( /\ pc[p] # "idle"
               /\ pc'[p] = "idle"
               /\ args[p].op = "store"
               /\ SizeOf(args[p].data) <= config.maxFileSize )
             => result'[p].store.error # "size"
      ]_vars

C10_Witness ==
    \E i \in 1..Len(hist) :
        /\ hist[i].args.op = "store"
        /\ SizeOf(hist[i].args.data) > config.maxFileSize
        /\ hist[i].res.store = [NoStoreResult EXCEPT !.error = "size"]

\* the step is an adapter call of p's storeContent (blob write, Firestore write,
\* metadata read or metadata write) that fails
StoreAdapterCallFails(p) ==
    /\ args[p].op = "store"
    /\ pc[p] \in {"store_write", "store_firestore", "urc_read", "urc_write"}
    /\ pc'[p] # pc[p]
    /\ faults' = faults + 1

\* C11: storeContent never rejects, and when its blob write, its metadata read
\* or a metadata write fails it resolves at once with success:false,
\* contentHash "", deduplicated:false, storagePath "" and a non-empty error.
C11_StoreFailureResult ==
    [][\A p \in Procs :
          /\ (args[p].op = "store" /\ pc[p] # "idle" /\ pc'[p] = "idle") =>
                result'[p].state = "resolved"
          /\ StoreAdapterCallFails(p) =>
                /\ pc'[p] = "idle"
                /\ result'[p].state = "resolved"
                /\ result'[p].store.error # ""
                /\ result'[p].store = [NoStoreResult EXCEPT !.error = result'[p].store.error]
      ]_vars

\* C12: a deleteContent that finds no entry for the digest in the folder
\* rejects with the not-found error, with forceDelete true or false, and the
\* call changes neither the bucket nor Firestore.
C12_DeleteNotFound ==
    [][\A p \in Procs :
          /\ (StartsCall(p) /\ args'[p].op = "delete") =>
                /\ bucket' = bucket
                /\ firestore' = firestore
          /\ ( /\ pc[p] = "delete_get"
               /\ pc'[p] # pc[p]
               /\ getCAFSMetadataIn(bucket, args[p].folder, args[p].hash) = <<>> )
             => /\ pc'[p] = "idle"
                /\ result'[p] = Rejected("notfound")
                /\ bucket' = bucket
                /\ firestore' = firestore
      ]_vars

\* a deleteContent with forceDelete was rejected with not-found, no entry being
\* there and no adapter call having failed
C12_Witness ==
    /\ Len(hist) > 0
    /\ Last.args.op = "delete"
    /\ Last.args.flag
    /\ Last.res = Rejected("notfound")
    /\ faults = 0
    /\ getCAFSMetadataIn(bucket, Last.args.folder, Last.args.hash) = <<>>

\* in bucket b the entry of the digest is gone while the blob at path is there
BlobWithoutEntry(b, folder, hash, path) ==
    FileIn(b, path) /\ ~FileIn(b, metadataPath(folder, hash))

\* C13: a deleteContent that deletes physically deletes the blob before the
\* entry: between the two steps (and so after a crash or a failure there) the
\* entry exists and the blob at its storage path is absent, and no step of the
\* call produces a state where the blob exists and the entry is deleted.
C13_BlobDeletedBeforeEntry ==
    [][\A p \in Procs :
          /\ pc'[p] = "delete_meta" =>
                /\ FileIn(bucket', metadataPath(args'[p].folder, args'[p].hash))
                /\ ~FileIn(bucket', loc'[p].entry[1].gcsPath)
          /\ (pc[p] = "delete_blob" /\ pc'[p] = "delete_meta") =>
                /\ FileIn(bucket, loc[p].entry[1].gcsPath)
                /\ FileIn(bucket, metadataPath(args[p].folder, args[p].hash))
          /\ (pc[p] \in {"delete_blob", "delete_meta"} /\ pc'[p] # pc[p]) =>
                (BlobWithoutEntry(bucket', args[p].folder, args[p].hash, loc[p].entry[1].gcsPath)
                    => BlobWithoutEntry(bucket, args[p].folder, args[p].hash,
                                        loc[p].entry[1].gcsPath))
      ]_vars

\* the metadata deletion failed after the blob was deleted: the call was
\* rejected, the entry is there and its blob is not
C13_Witness ==
    /\ Idle
    /\ Len(hist) > 0
    /\ Last.args.op = "delete"
    /\ Last.res = Rejected("io")
    /\ FileIn(bucket, metadataPath(Last.args.folder, Last.args.hash))
    /\ ~FileIn(bucket, getStoragePath(Last.args.folder, Last.args.hash))

\* the step is one of p's deleteContent with forceDelete, at the await named
\* label, and its adapter call does not fail
ForcedDeleteStep(p, label) ==
    /\ args[p].op = "delete"
    /\ args[p].flag
    /\ pc[p] = label
    /\ pc'[p] # pc[p]
    /\ faults' = faults

\* C14: a deleteContent with forceDelete on a digest whose entry (with any
\* referenceCount n >= 1) and blob exist removes the blob at the entry's storage
\* path and then the entry in that one call, without counting down: the call
\* resolves and leaves neither blob nor entry.
C14_ForceDeleteRemoves ==
    [][\A p \in Procs :
          LET entry == getCAFSMetadataIn(bucket, args[p].folder, args[p].hash)
          IN  /\ (ForcedDeleteStep(p, "delete_get") /\ entry # <<>>) =>
                    /\ pc'[p] = "delete_blob"
                    /\ loc'[p].entry = entry
                    /\ bucket' = bucket
              /\ (ForcedDeleteStep(p, "delete_blob") /\ FileIn(bucket, loc[p].entry[1].gcsPath)) =>
                    /\ pc'[p] = "delete_meta"
                    /\ ~FileIn(bucket', loc[p].entry[1].gcsPath)
                    /\ entry = loc[p].entry
              /\ (ForcedDeleteStep(p, "delete_meta") /\ entry # <<>>) =>
                    /\ pc'[p] = "idle"
                    /\ result'[p] = Resolved
                    /\ ~FileIn(bucket', loc[p].entry[1].gcsPath)
                    /\ getCAFSMetadataIn(bucket', args[p].folder, args[p].hash) = <<>>
      ]_vars

\* a deduplicated store brought the count of a stored digest to 2 or more, and
\* the deleteContent with forceDelete that followed removed blob and entry
C14_Witness ==
    /\ Len(hist) = 2
    /\ faults = 0
    /\ hist[1].args.op = "store"
    /\ hist[1].res.store.deduplicated
    /\ hist[2].args.op = "delete"
    /\ hist[2].args.flag
    /\ hist[2].args.folder = hist[1].args.folder
    /\ hist[2].args.hash = hist[1].res.store.contentHash
    /\ hist[2].res = Resolved
    /\ hist[2].removed
    /\ ~FileIn(bucket, getStoragePath(hist[2].args.folder, hist[2].args.hash))
    /\ ~FileIn(bucket, metadataPath(hist[2].args.folder, hist[2].args.hash))

\* C15: when no call is in flight (adapters not failing, calls interleaved in
\* any way, concurrent deleteContent calls on one digest included), no
\* persisted entry has referenceCount 0 while its payload is still stored.
C15_ZeroCountMeansRemoved ==
    Idle => \A e \in PersistedEntries :
                e.metadata.referenceCount = 0 => ~FileIn(bucket, e.gcsPath)

\* the digests of all contents storeContent can be called with
AllDigests == {generateContentHash(ContentOf(d)) : d \in Data}

\* C16: under any interleaving of calls (concurrent storeContent calls of the
\* same or of different content into one folder included) the bytes stored at
\* folder/digest hash to digest, and the contentHash of every persisted entry
\* is the hash of the bytes at its storage path.
C16_PayloadMatchesDigest ==
    /\ \A f \in Folders, h \in AllDigests :
            FileIn(bucket, getStoragePath(f, h)) =>
                generateContentHash(bucket[getStoragePath(f, h)].raw) = h
    /\ \A e \in PersistedEntries :
            FileIn(bucket, e.gcsPath) =>
                generateContentHash(bucket[e.gcsPath].raw) = e.contentHash

\* two storeContent calls of one content into one folder have both written the
\* payload, the second over the first
C16_Witness ==
    /\ \A p \in Procs : args[p].op = "store" /\ pc[p] = "store_firestore"
    /\ args[1].folder = args[2].folder
    /\ args[1].data = args[2].data
    /\ FileIn(bucket, loc[1].storagePath)
    /\ bucket[loc[1].storagePath].raw = ContentOf(args[1].data)

\* the last two completed calls are storeContent calls of one content into one
\* folder that overlapped: with deduplication enabled and no adapter failure
\* both found the payload absent and both wrote it (deduplicated:false)
BothStoresWrote ==
    /\ TwoStoresOfSameContent
    /\ Idle
    /\ config.enableDeduplication
    /\ faults = 0
    /\ hist[1].res.store.success /\ ~hist[1].res.store.deduplicated
    /\ hist[2].res.store.success /\ ~hist[2].res.store.deduplicated

\* C17: when two concurrent storeContent calls of identical content into one
\* folder both took the write path, the digest has, after both completed, one
\* entry with referenceCount 1 (and not 2).
C17_ConcurrentStoresUndercount ==
    BothStoresWrote =>
        LET got == getCAFSMetadataIn(bucket, hist[1].args.folder,
                                     hist[1].res.store.contentHash)
        IN  /\ got # <<>>
            /\ got[1].metadata.referenceCount = 1

\* the step is one of p's storeContent, past its start
StoreStep(p) ==
    /\ args[p].op = "store"
    /\ pc[p] # "idle"
    /\ pc'[p] # pc[p]

\* the Firestore documents and the entries the step writes
WrittenDocs == {k \in DOMAIN firestore' : k \notin DOMAIN firestore \/ firestore'[k] # firestore[k]}
WrittenEntries == PersistedEntries' \ PersistedEntries

\* C18: storeContent attempts its metadata write (the Firestore document
\* {path, timestamp}) only once the blob write has succeeded; when that write
\* fails the call resolves with success:false and the blob stays at its storage
\* path; and every metadata record a step of storeContent writes (Firestore
\* document, or entry rewritten by the reference-count update) names a storage
\* path whose blob exists.
C18_MetadataAfterBlob ==
    [][\A p \in Procs :
          /\ (StoreStep(p) /\ pc'[p] = "store_firestore") =>
                /\ pc[p] = "store_write"
                /\ faults' = faults
                /\ FileIn(bucket', loc[p].storagePath)
                /\ bucket'[loc[p].storagePath].raw = loc[p].content
          /\ (StoreStep(p) /\ pc[p] = "store_write" /\ faults' # faults) =>
                /\ pc'[p] = "idle"
                /\ firestore' = firestore
          /\ (StoreStep(p) /\ pc[p] = "store_firestore" /\ faults' # faults) =>
                /\ pc'[p] = "idle"
                /\ result'[p].state = "resolved"
                /\ ~result'[p].store.success
                /\ result'[p].store.error # ""
                /\ firestore' = firestore
                /\ FileIn(bucket', loc[p].storagePath)
          /\ StoreStep(p) =>
                /\ \A k \in WrittenDocs : FileIn(bucket', firestore'[k].path)
                /\ \A e \in WrittenEntries : FileIn(bucket', e.gcsPath)
      ]_vars

\* the Firestore write of a storeContent failed after its blob write: the
\* call returned the failure result, the blob is stored, no document was written
C18_Witness ==
    /\ Idle
    /\ Len(hist) > 0
    /\ Last.args.op = "store"
    /\ ~Last.pre
    /\ Last.res = StoreFailure("io")
    /\ FileIn(bucket, getStoragePath(Last.args.folder, KeyHash(Last.args)))
    /\ firestore = EmptyMap

\* C19: a retrieveContent that finds no blob at the storage path it looks up
\* for the folder and digest rejects with the not-found error, and the call
\* writes neither to the bucket nor to Firestore.
C19_RetrieveNotFound ==
    [][\A p \in Procs :
          /\ (StartsCall(p) /\ args'[p].op = "retrieve") =>
                /\ bucket' = bucket
                /\ firestore' = firestore
          /\ ( /\ pc[p] = "retrieve_exists"
               /\ pc'[p] # pc[p]
               /\ ~FileIn(bucket, retrieveStoragePath(args[p].folder, args[p].hash)) )
             => /\ pc'[p] = "idle"
                /\ result'[p] = Rejected("notfound")
                /\ bucket' = bucket
                /\ firestore' = firestore
      ]_vars

\* a retrieveContent was rejected with not-found, no blob being at the path it
\* looks up and no adapter call having failed
C19_Witness ==
    /\ Len(hist) > 0
    /\ Last.args.op = "retrieve"
    /\ Last.res = Rejected("notfound")
    /\ faults = 0
    /\ ~FileIn(bucket, retrieveStoragePath(Last.args.folder, Last.args.hash))

\* C20: retrieveContent never returns content whose recomputed digest differs
\* from the contentHash it was called with (it rejects instead, with an
\* integrity error that is not the not-found error).
C20_RetrieveVerifiesDigest ==
    \A i \in 1..Len(hist) :
        (hist[i].args.op = "retrieve" /\ hist[i].res.state = "resolved") =>
            generateContentHash(hist[i].res.content) = hist[i].args.hash

\* C21: when retrieveContent with updateAccessTime has read the blob and the
\* write of lastAccessedAt fails, the call still resolves with the content.
C21_AccessTimeFailureTolerated ==
    [][\A p \in Procs :
          ( /\ args[p].op = "retrieve"
            /\ args[p].flag
            /\ pc[p] = "ulat_write"
            /\ pc'[p] # pc[p]
            /\ faults' # faults )
          => /\ pc'[p] = "idle"
             /\ result'[p] = [Resolved EXCEPT !.content = loc[p].content]
      ]_vars

\* C22: contentExists never rejects; it answers false when the existence probe
\* fails, true only when a blob exists at folder/digest, and the answer is
\* decided by the blob alone, whatever entries the metadata store holds.
C22_ContentExistsProbeOnly ==
    [][\A p \in Procs :
          (pc[p] = "exists_probe" /\ pc'[p] # pc[p]) =>
              LET blob == FileIn(bucket, getStoragePath(args[p].folder, args[p].hash))
              IN  /\ pc'[p] = "idle"
                  /\ result'[p].state = "resolved"
                  /\ faults' # faults => ~result'[p].bool
                  /\ result'[p].bool => blob
                  /\ faults' = faults => (result'[p].bool <=> blob)
                  /\ bucket' = bucket
      ]_vars

\* the probe failed while the blob was stored: contentExists answered false
C22_Witness ==
    /\ Idle
    /\ Len(hist) > 0
    /\ Last.args.op = "exists"
    /\ Last.res.state = "resolved"
    /\ ~Last.res.bool
    /\ FileIn(bucket, getStoragePath(Last.args.folder, Last.args.hash))
    /\ faults = 1

\* the payload files of bucket b (the files that are not entry documents), by
\* path
Payloads(b) ==
    [f \in {g \in DOMAIN b : b[g].doc = <<>>} |-> b[f]]

\* C23: a storeContent that returns deduplicated:true writes no payload: its
\* result comes from the reference-count path only, and no step of the call on
\* that path changes the set of payload paths or the bytes at any of them.
C23_DedupWritesNoPayload ==
    [][\A p \in Procs :
          /\ (StoreStep(p) /\ pc'[p] = "idle" /\ result'[p].store.deduplicated) =>
                pc[p] \in {"urc_read", "urc_write"}
          /\ (StoreStep(p) /\ pc[p] \in {"store_exists", "urc_read", "urc_write"}) =>
                Payloads(bucket') = Payloads(bucket)
          /\ (StartsCall(p) /\ args'[p].op = "store") => bucket' = bucket
      ]_vars

\* a storeContent returned deduplicated:true after rewriting the entry with
\* its count raised, the payload being as the first writer stored it
C23_Witness ==
    /\ Idle
    /\ Len(hist) > 0
    /\ Last.args.op = "store"
    /\ Last.res.store.deduplicated
    /\ \E e \in PersistedEntries :
           /\ e.gcsPath = Last.res.store.storagePath
           /\ e.metadata.referenceCount >= 2
           /\ FileIn(bucket, e.gcsPath)
           /\ bucket[e.gcsPath].timestamp = 0

\* the number of times x occurs in the sequence q
Occurrences(q, x) == Cardinality({i \in 1..Len(q) : q[i] = x})

\* C24: after a storeContent of caller identity id returned deduplicated:true,
\* the referencedBy list of the entry of the digest contains id exactly once.
C24_ReferencedByRecordsCaller ==
    ( /\ Idle
      /\ faults = 0
      /\ Len(hist) > 0
      /\ Last.args.op = "store"
      /\ Last.res.store.deduplicated
      /\ getCAFSMetadataIn(bucket, Last.args.folder, Last.res.store.contentHash) # <<>> ) =>
        LET entry == getCAFSMetadataIn(bucket, Last.args.folder, Last.res.store.contentHash)[1]
        IN  Occurrences(entry.referencedBy, Last.args.id) = 1

\* in bucket b the digest has a payload at folder/digest and no entry
OrphanBlob(b, folder, hash) ==
    /\ FileIn(b, getStoragePath(folder, hash))
    /\ ~FileIn(b, metadataPath(folder, hash))

\* C25: with a payload at folder/digest that has no entry, a listCAFSEntries of
\* the folder resolves (no adapter failure) without an entry for the digest,
\* and a deleteContent of the digest rejects with not-found and leaves the
\* bucket as it was.
C25_OrphanBlobInvisible ==
    [][\A p \in Procs :
          /\ ( /\ args[p].op = "list"
               /\ pc[p] # "idle"
               /\ pc'[p] = "idle"
               /\ faults' = 0 )
             => /\ result'[p].state = "resolved"
                /\ bucket' = bucket
                /\ \A h \in AllDigests :
                       OrphanBlob(bucket, args[p].folder, h) =>
                           \A e \in SeqRange(result'[p].entries) : e.contentHash # h
          /\ ( /\ args[p].op = "delete"
               /\ pc[p] = "delete_get"
               /\ pc'[p] # pc[p]
               /\ OrphanBlob(bucket, args[p].folder, args[p].hash) )
             => /\ pc'[p] = "idle"
                /\ result'[p] = Rejected("notfound")
                /\ bucket' = bucket
      ]_vars

\* a store left a payload without entry in a folder whose files the listing
\* looks up, and the listCAFSEntries of that folder resolved without it
C25_Witness ==
    /\ Idle
    /\ faults = 0
    /\ Len(hist) = 2
    /\ hist[1].args.op = "store"
    /\ hist[1].res.store.success
    /\ hist[2].args.op = "list"
    /\ hist[2].args.folder = hist[1].args.folder
    /\ OrphanBlob(bucket, hist[1].args.folder, hist[1].res.store.contentHash)
    /\ extractHashFromPath(hist[1].res.store.storagePath) = <<hist[1].res.store.contentHash>>
    /\ hist[2].res.state = "resolved"
    /\ hist[2].res.entries = <<>>

\* C26: getCAFSEntry never rejects and changes neither the bucket (payloads,
\* entries with their referenceCount and lastAccessedAt) nor Firestore; it
\* resolves with the persisted entry of the digest when there is one and with
\* null when there is none (null also when the read fails).
C26_GetCAFSEntryPure ==
    [][\A p \in Procs :
          /\ (StartsCall(p) /\ args'[p].op = "entry") =>
                /\ bucket' = bucket
                /\ firestore' = firestore
          /\ (pc[p] = "entry_get" /\ pc'[p] # pc[p]) =>
                LET entry == getCAFSMetadataIn(bucket, args[p].folder, args[p].hash)
                IN  /\ pc'[p] = "idle"
                    /\ result'[p].state = "resolved"
                    /\ result'[p].entries \in {entry, <<>>}
                    /\ faults' = faults => result'[p].entries = entry
                    /\ bucket' = bucket
                    /\ firestore' = firestore
      ]_vars

\* a getCAFSEntry resolved with the entry persisted for the digest
C26_Witness ==
    /\ Idle
    /\ faults = 0
    /\ Len(hist) > 0
    /\ Last.args.op = "entry"
    /\ Last.res.state = "resolved"
    /\ Last.res.entries # <<>>
    /\ Last.res.entries = getCAFSMetadataIn(bucket, Last.args.folder, Last.args.hash)

\* C27: the timestamp of the entry of a digest never changes while the entry
\* exists: whatever step is taken (reference-count update of a deduplicated
\* store or of a deleteContent, update of lastAccessedAt by a retrieval), an
\* entry that is there before and after it has the same timestamp.
C27_TimestampImmutable ==
    [][\A f \in Folders, h \in AllDigests :
          LET before == getCAFSMetadataIn(bucket, f, h)
              after == getCAFSMetadataIn(bucket', f, h)
          IN  (before # <<>> /\ after # <<>>) =>
                  /\ after[1].metadata.timestamp = before[1].metadata.timestamp
                  /\ bucket'[metadataPath(f, h)].timestamp = bucket[metadataPath(f, h)].timestamp
      ]_vars

\* an entry went through a deduplicated store and a retrieval that updated
\* lastAccessedAt, and has the timestamp it was created with
C27_Witness ==
    /\ Idle
    /\ \E e \in PersistedEntries :
           /\ e.metadata.referenceCount = MaxSeedRefs + 1
           /\ e.metadata.lastAccessedAt > 0
           /\ e.metadata.timestamp = 0

\* the completed calls in hist that are successful storeContent calls
SuccessfulStores ==
    {i \in 1..Len(hist) : hist[i].args.op = "store" /\ hist[i].res.store.success}

\* C28: the contentHash of a successful storeContent is decided by the content
\* alone: it is the digest of the content, and two successful stores of equal
\* content return the same contentHash whatever their id, their folder and the
\* state of the store they ran in.
C28_HashFromContentOnly ==
    /\ \A i \in SuccessfulStores :
           hist[i].res.store.contentHash = generateContentHash(ContentOf(hist[i].args.data))
    /\ \A i, j \in SuccessfulStores :
           hist[i].args.data = hist[j].args.data =>
               hist[i].res.store.contentHash = hist[j].res.store.contentHash

\* two successful stores of one content with different ids, into different
\* folders, one finding the payload stored and the other not
C28_Witness ==
    /\ SuccessfulStores = {1, 2}
    /\ hist[1].args.data = hist[2].args.data
    /\ hist[1].args.id # hist[2].args.id
    /\ hist[1].args.folder # hist[2].args.folder
    /\ hist[1].res.store.deduplicated # hist[2].res.store.deduplicated
    /\ hist[1].res.store.contentHash = hist[2].res.store.contentHash

\* C29: round trip of GCSUtils: a readFromGCS(path) that follows a successful
\* writeToGCS(path, n), with no other write to the path in between and no
\* adapter failure, resolves with n, for every path and every number n.
C29_NumberRoundTrip ==
    ( /\ Len(hist) = 2
      /\ faults = 0
      /\ hist[1].args.op = "write"
      /\ hist[1].res.state = "resolved"
      /\ hist[2].args.op = "read"
      /\ hist[2].args.filePath = hist[1].args.filePath ) =>
        /\ hist[2].res.state = "resolved"
        /\ hist[2].res.number = hist[1].args.semanticIdentity

\* the step is the one at which p's deleteContent rejects
DeleteRejects(p) ==
    /\ args[p].op = "delete"
    /\ pc[p] # "idle"
    /\ pc'[p] = "idle"
    /\ result'[p].state = "rejected"

\* the blob and the entry of the digest of p's call, after the step
BlobAfter(p) == FileIn(bucket', getStoragePath(args[p].folder, args[p].hash))
EntryAfter(p) == getCAFSMetadataIn(bucket', args[p].folder, args[p].hash)

\* C30 (as stated): whenever deleteContent rejects, the blob, the entry and its
\* referenceCount are what they were when the call started.
C30_RejectedDeleteChangedNothing ==
    [][\A p \in Procs :
          DeleteRejects(p) =>
              /\ BlobAfter(p) = loc[p].pre
              /\ (EntryAfter(p) # <<>>) = loc[p].preEntry
              /\ loc[p].entry # <<>> => EntryAfter(p) = loc[p].entry
      ]_vars

\* C30 (amended): a deleteContent that rejects because it found no entry (or
\* could not read it) changed nothing.  One that rejects later never removed
\* the entry, but may already have written the count lowered by one (not with
\* forceDelete) and may already have deleted the blob (when it is the entry
\* deletion that failed).
C30_RejectedDeletePartial ==
    [][\A p \in Procs :
          DeleteRejects(p) =>
              /\ pc[p] = "delete_get" =>
                    /\ bucket' = bucket
                    /\ BlobAfter(p) = loc[p].pre
                    /\ (EntryAfter(p) # <<>>) = loc[p].preEntry
              /\ pc[p] # "delete_get" =>
                    /\ loc[p].preEntry
                    /\ EntryAfter(p) # <<>>
                    /\ EntryAfter(p) \in {loc[p].entry, <<BumpedReferenceCount(loc[p].entry[1], -1)>>}
                    /\ args[p].flag => EntryAfter(p) = loc[p].entry
                    /\ BlobAfter(p) => loc[p].pre
                    /\ (loc[p].pre /\ ~BlobAfter(p)) => pc[p] = "delete_meta"
      ]_vars

\* a deleteContent without forceDelete was rejected when deleting the blob
\* failed, after it had written the count down to 0: the payload is stored
\* and its entry has referenceCount 0
C30_Witness ==
    /\ Idle
    /\ Len(hist) = 1
    /\ Last.args.op = "delete"
    /\ ~Last.args.flag
    /\ Last.res = Rejected("io")
    /\ Last.pre
    /\ FileIn(bucket, getStoragePath(Last.args.folder, Last.args.hash))
    /\ getCAFSMetadataIn(bucket, Last.args.folder, Last.args.hash) # <<>>
    /\ getCAFSMetadataIn(bucket, Last.args.folder, Last.args.hash)[1].metadata.referenceCount = 0

\* the entry documents of bucket b, by path
EntryFiles(b) ==
    [f \in {g \in DOMAIN b : b[g].doc # <<>>} |-> b[f]]

\* C31: with enableDeduplication false, storeContent makes no existence probe
\* and no reference-count update: a call within the size limit goes straight
\* to the payload write, a call that succeeds has written the payload and
\* returns deduplicated:false (also when the same content was stored already),
\* and no step of it changes an entry.
C31_NoDedupWhenDisabled ==
    [][~config.enableDeduplication =>
          \A p \in Procs :
              /\ (StartsCall(p) /\ args'[p].op = "store") =>
                    pc'[p] \in {"idle", "store_write"}
              /\ StoreStep(p) =>
                    /\ pc[p] \in {"store_write", "store_firestore"}
                    /\ EntryFiles(bucket') = EntryFiles(bucket)
              /\ (StoreStep(p) /\ pc[p] = "store_write" /\ faults' = faults) =>
                    /\ FileIn(bucket', loc[p].storagePath)
                    /\ bucket'[loc[p].storagePath].raw = ContentOf(args[p].data)
              /\ (StoreStep(p) /\ pc'[p] = "idle" /\ result'[p].store.success) =>
                    /\ pc[p] = "store_firestore"
                    /\ ~result'[p].store.deduplicated
      ]_vars

\* with deduplication disabled, a store of content that was already stored in
\* the folder with an entry succeeded with deduplicated:false, and the entry
\* still has a referenceCount found at construction
C31_Witness ==
    /\ Idle
    /\ ~config.enableDeduplication
    /\ Len(hist) = 1
    /\ Last.args.op = "store"
    /\ Last.pre
    /\ Last.res.store.success
    /\ ~Last.res.store.deduplicated
    /\ getCAFSMetadataIn(bucket, Last.args.folder, Last.res.store.contentHash) # <<>>
    /\ getCAFSMetadataIn(bucket, Last.args.folder,
                         Last.res.store.contentHash)[1].metadata.referenceCount <= MaxSeedRefs

\* the step is one of p's retrieveContent, past its start
RetrieveStep(p) ==
    /\ args[p].op = "retrieve"
    /\ pc[p] # "idle"
    /\ pc'[p] # pc[p]

\* an entry document with its lastAccessedAt left out of the comparison
ButLastAccessedAt(file) ==
    [file EXCEPT !.doc = <<[file.doc[1] EXCEPT !.metadata.lastAccessedAt = 0]>>]

\* C32: retrieveContent changes no payload and no Firestore document; without
\* updateAccessTime it writes nothing; with updateAccessTime the only change it
\* can make is to lastAccessedAt of the entry it addresses (referenceCount,
\* contentHash, storage path and referencedBy of every entry stay as they are).
C32_RetrieveFrame ==
    [][\A p \in Procs :
          /\ (StartsCall(p) /\ args'[p].op = "retrieve") => bucket' = bucket
          /\ RetrieveStep(p) =>
                /\ firestore' = firestore
                /\ Payloads(bucket') = Payloads(bucket)
                /\ ~args[p].flag => bucket' = bucket
                /\ DOMAIN EntryFiles(bucket') = DOMAIN EntryFiles(bucket)
                /\ \A f \in DOMAIN EntryFiles(bucket) :
                       IF f = metadataPath(args[p].folder, args[p].hash)
                       THEN ButLastAccessedAt(bucket'[f]) = ButLastAccessedAt(bucket[f])
                       ELSE bucket'[f] = bucket[f]
      ]_vars

\* C33: a retrieveContent with updateAccessTime that overlaps a deduplicated
\* storeContent or a deleteContent without forceDelete on the same digest does
\* not lose the reference-count change: the write it makes to the entry leaves
\* the persisted referenceCount as the other call wrote it, so that the count
\* after both calls is what it would be without the retrieve.
C33_RetrieveKeepsReferenceCount ==
    [][\A p \in Procs :
          LET before == getCAFSMetadataIn(bucket, args[p].folder, args[p].hash)
              after == getCAFSMetadataIn(bucket', args[p].folder, args[p].hash)
          IN  ( /\ RetrieveStep(p)
                /\ args[p].flag
                /\ pc[p] = "ulat_write"
                /\ before # <<>>
                /\ after # <<>> )
              => after[1].metadata.referenceCount = before[1].metadata.referenceCount
      ]_vars

\* both calls of the behaviour are done, they overlapped (the second caller
\* starts only while the first is in a call), and they are the storeContent of
\* caller s and the deleteContent of caller d of the same digest in one folder
StoreOverlappedDelete(s, d) ==
    /\ Idle
    /\ clock = 2
    /\ args[s].op = "store"
    /\ args[d].op = "delete"
    /\ args[d].folder = args[s].folder
    /\ args[d].hash = KeyHash(args[s])

\* C34: when a storeContent ran concurrently with a deleteContent of the same
\* digest in the same folder and returned success:true, then after both calls
\* the payload exists at the storagePath it returned, together with an entry
\* of referenceCount >= 1.
C34_StoreSurvivesConcurrentDelete ==
    \A s, d \in Procs :
        (StoreOverlappedDelete(s, d) /\ faults = 0 /\ result[s].store.success) =>
            LET entry == getCAFSMetadataIn(bucket, args[s].folder,
                                           result[s].store.contentHash)
            IN  /\ FileIn(bucket, result[s].store.storagePath)
                /\ entry # <<>>
                /\ entry[1].metadata.referenceCount >= 1

\* the last two completed calls are storeContent calls of the same data into
\* two different folders
TwoStoresIntoTwoFolders ==
    /\ Len(hist) = 2
    /\ hist[1].args.op = "store"
    /\ hist[2].args.op = "store"
    /\ hist[1].args.folder # hist[2].args.folder
    /\ hist[1].args.data = hist[2].args.data

\* payload and entry of digest h in folder f are the same files in b and c
SameStoredContent(b, c, f, h) ==
    \A path \in {getStoragePath(f, h), metadataPath(f, h)} :
        /\ FileIn(b, path) = FileIn(c, path)
        /\ FileIn(b, path) => b[path] = c[path]

\* the step is one of p's storeContent or deleteContent, its start included
StoreOrDeleteStep(p) ==
    /\ args'[p].op \in {"store", "delete"}
    /\ pc'[p] # pc[p]

\* C35: deduplication is per folder.  Successful stores of the same data into
\* two different folders return the same contentHash and two distinct
\* storagePaths, and each of them reports deduplicated:false when its own
\* folder did not hold the payload before it; no step of a storeContent or
\* deleteContent changes the payload or the entry (its referenceCount
\* included) of any digest in a folder other than the call's.
C35_DeduplicationPerFolder ==
    [][/\ (TwoStoresIntoTwoFolders' /\ hist'[1].res.store.success
                                    /\ hist'[2].res.store.success) =>
            /\ hist'[1].res.store.contentHash = hist'[2].res.store.contentHash
            /\ hist'[1].res.store.storagePath # hist'[2].res.store.storagePath
            /\ \A i \in 1..2 : ~hist'[i].pre => ~hist'[i].res.store.deduplicated
       /\ \A p \in Procs : StoreOrDeleteStep(p) =>
            \A f \in Folders \ {args'[p].folder}, h \in AllDigests :
                SameStoredContent(bucket, bucket', f, h)]_vars

\* the seeded content of folder "cafs" was stored again and then stored into
\* another folder: the first call was a deduplication hit that bumped the count
\* of "cafs", the second wrote a payload of its own and left "cafs" as it was
C35_Witness ==
    /\ TwoStoresIntoTwoFolders
    /\ Idle
    /\ hist[1].res.store.deduplicated
    /\ hist[2].res.store.success
    /\ ~hist[2].res.store.deduplicated
    /\ FileIn(bucket, hist[1].res.store.storagePath)
    /\ FileIn(bucket, hist[2].res.store.storagePath)
    /\ getCAFSMetadataIn(bucket, hist[1].args.folder, hist[1].res.store.contentHash) # <<>>
    /\ getCAFSMetadataIn(bucket, hist[1].args.folder,
                         hist[1].res.store.contentHash)[1].metadata.referenceCount >= 2

\* the step is p's entry read of updateReferenceCount or updateLastAccessTime,
\* and the folder holds no entry for the digest
UpdateReadsMissingEntry(p) ==
    /\ pc[p] \in {"urc_read", "ulat_read"}
    /\ pc'[p] # pc[p]
    /\ getCAFSMetadataIn(bucket, args[p].folder, KeyHash(args[p])) = <<>>

\* C36: updateReferenceCount and updateLastAccessTime do nothing on a missing
\* entry: the step that finds no entry writes nothing and schedules no entry
\* write, and a storeContent that hit the deduplication branch on a payload
\* without entry returns success:true, deduplicated:true with the digest and
\* path of the payload, the metadata files being the same after the call (no
\* entry is created).
C36_UpdatesSkipMissingEntry ==
    [][\A p \in Procs :
        /\ UpdateReadsMissingEntry(p) =>
            /\ bucket' = bucket
            /\ pc'[p] \notin {"urc_write", "ulat_write"}
            /\ args[p].op = "store" =>
                /\ pc'[p] = "idle"
                /\ result'[p].state = "resolved"
                /\ result'[p].store.success
                /\ result'[p].store.deduplicated
                /\ result'[p].store.contentHash = KeyHash(args[p])
                /\ result'[p].store.storagePath = getStoragePath(args[p].folder, KeyHash(args[p]))
        /\ (StoreStep(p) /\ pc'[p] = "idle" /\ result'[p].store.deduplicated
                         /\ ~loc[p].preEntry) =>
            /\ getCAFSMetadataIn(bucket', args[p].folder, KeyHash(args[p])) = <<>>
            /\ EntryFiles(bucket') = EntryFiles(bucket)
            /\ FileIn(bucket', result'[p].store.storagePath)]_vars

\* a content was stored into an empty bucket and then stored again: the second
\* call was a deduplication hit on a payload that has no entry, and it
\* succeeded without creating one
C36_Witness ==
    /\ TwoStoresOfSameContent
    /\ Idle
    /\ ~hist[1].pre
    /\ hist[1].res.store.success
    /\ hist[2].pre
    /\ hist[2].res.store.success
    /\ hist[2].res.store.deduplicated
    /\ FileIn(bucket, hist[2].res.store.storagePath)
    /\ EntryFiles(bucket) = EmptyMap

====
